---------------------------- MODULE Spec2Model ----------------------------
(***************************************************************************)
(* overjoy-swag: a Swagger contract is turned into routes (core.ts), each  *)
(* route into a hapi route configuration whose validators run JSON-schema  *)
(* validation through a memoized Ajv compiler (validate.ts), and the       *)
(* routes are registered on the server (hapiIntegration.ts).               *)
(*                                                                         *)
(* Data encoding.  A JS string that travels as request data is a sequence  *)
(* of one-character strings, so that the numeric conversion (+value) is    *)
(* computed by parsing.  A JS number is an integer scaled by Scale.  A     *)
(* JSON value is a record [t, s, n, f]: its type tag, its characters (a    *)
(* string), its scaled number and its fields (an object).  A JSON schema   *)
(* is a record that has exactly the keywords the schema object has.        *)
(***************************************************************************)
EXTENDS Integers, Sequences, FiniteSets, TLC

\* Longest request string that is enumerated.
MaxStrLen == 3

\* Characters of the enumerated request strings: digits, the decimal point,
\* a letter and white space.
Chars == {"1", "4", ".", "a", " "}

RECURSIVE Pow10(_)
Pow10(k) == IF k = 0 THEN 1 ELSE 10 * Pow10(k - 1)

\* One unit of a JS number; fine enough for every fraction that fits in a
\* request string.
Scale == Pow10(MaxStrLen)

RECURSIVE StringsUpTo(_)
StringsUpTo(k) ==
    IF k = 0 THEN {<< >>}
    ELSE LET shorter == StringsUpTo(k - 1)
         IN  shorter \cup {Append(s, c) : s \in shorter, c \in Chars}

Strings == StringsUpTo(MaxStrLen)

--------------------------------------------------------------------------
(* JS values *)

NoFields == << >>

Str(s) == [t |-> "string", s |-> s, n |-> 0, f |-> NoFields]
Num(n) == [t |-> "number", s |-> << >>, n |-> n, f |-> NoFields]
Obj(f) == [t |-> "object", s |-> << >>, n |-> 0, f |-> f]
Null == [t |-> "null", s |-> << >>, n |-> 0, f |-> NoFields]

\* An object with the single field k.
Field(k, v) == [x \in {k} |-> v]

\* Object spread / assignment of one property.
SetField(f, k, v) == [x \in DOMAIN f \cup {k} |-> IF x = k THEN v ELSE f[x]]

--------------------------------------------------------------------------
(* JS: the numeric value of a string, Number(s) or +s *)

IsDigit(c) == c \in {"0", "1", "2", "3", "4", "5", "6", "7", "8", "9"}

DigitVal(c) ==
    CASE c = "0" -> 0 [] c = "1" -> 1 [] c = "2" -> 2 [] c = "3" -> 3
      [] c = "4" -> 4 [] c = "5" -> 5 [] c = "6" -> 6 [] c = "7" -> 7
      [] c = "8" -> 8 [] c = "9" -> 9

IsSpace(c) == c = " "

RECURSIVE TrimLeft(_)
TrimLeft(s) ==
    IF s # << >> /\ IsSpace(Head(s)) THEN TrimLeft(Tail(s)) ELSE s

RECURSIVE TrimRight(_)
TrimRight(s) ==
    IF s # << >> /\ IsSpace(s[Len(s)])
    THEN TrimRight(SubSeq(s, 1, Len(s) - 1))
    ELSE s

Trim(s) == TrimRight(TrimLeft(s))

AllDigits(s) == \A i \in 1..Len(s) : IsDigit(s[i])

RECURSIVE DigitsVal(_)
DigitsVal(s) ==
    IF s = << >> THEN 0
    ELSE 10 * DigitsVal(SubSeq(s, 1, Len(s) - 1)) + DigitVal(s[Len(s)])

IndexOfDot(s) ==
    IF \E i \in 1..Len(s) : s[i] = "."
    THEN CHOOSE i \in 1..Len(s) : s[i] = "." /\ \A j \in 1..(i - 1) : s[j] # "."
    ELSE 0

NaN == [nan |-> TRUE, v |-> 0]
Finite(v) == [nan |-> FALSE, v |-> v]

\* StrUnsignedDecimalLiteral: digits, digits "." digits-opt, "." digits.
Decimal(ip, fp) ==
    IF /\ AllDigits(ip) /\ AllDigits(fp)
       /\ Len(ip) + Len(fp) > 0
       /\ Len(fp) <= MaxStrLen
    THEN Finite(DigitsVal(ip) * Scale + DigitsVal(fp) * (Scale \div Pow10(Len(fp))))
    ELSE NaN

SplitAtDot(s, dot) ==
    Decimal(IF dot = 0 THEN s ELSE SubSeq(s, 1, dot - 1),
            IF dot = 0 THEN << >> ELSE SubSeq(s, dot + 1, Len(s)))

UnsignedDecimal(s) == SplitAtDot(s, IndexOfDot(s))

Signed(negative, u) ==
    IF negative /\ ~u.nan THEN Finite(0 - u.v) ELSE u

Literal(t) ==
    IF t = << >> THEN Finite(0)
    ELSE Signed(Head(t) = "-",
                UnsignedDecimal(IF Head(t) \in {"-", "+"} THEN Tail(t) ELSE t))

\* StringToNumber over decimal literals: white space is trimmed, the empty
\* string is 0, a sign may lead, anything else is NaN.
ToNumber(s) == Literal(Trim(s))

\* JS: x % 1 is 0.
IsWhole(v) == v % Scale = 0

--------------------------------------------------------------------------
(* JS: the string of a number, '' + n *)

DigitChar(d) ==
    CASE d = 0 -> "0" [] d = 1 -> "1" [] d = 2 -> "2" [] d = 3 -> "3"
      [] d = 4 -> "4" [] d = 5 -> "5" [] d = 6 -> "6" [] d = 7 -> "7"
      [] d = 8 -> "8" [] d = 9 -> "9"

RECURSIVE NatToStr(_)
NatToStr(n) ==
    IF n < 10 THEN << DigitChar(n) >>
    ELSE Append(NatToStr(n \div 10), DigitChar(n % 10))

\* The digits of the fraction p / q, q a power of ten, without trailing zeros.
RECURSIVE FracToStr(_, _)
FracToStr(p, q) ==
    IF p = 0 THEN << >>
    ELSE << DigitChar((p * 10) \div q) >> \o FracToStr((p * 10) % q, q)

NumberToString(v) ==
    LET a    == IF v < 0 THEN 0 - v ELSE v
        sign == IF v < 0 THEN << "-" >> ELSE << >>
        frac == FracToStr(a % Scale, Scale)
    IN  sign \o NatToStr(a \div Scale)
             \o (IF frac = << >> THEN << >> ELSE << "." >> \o frac)

--------------------------------------------------------------------------
(* Ajv: the validator the module builds, and what a compiled schema does *)

\* new Ajv(): neither defaults nor coercion.
ajvPlain == [useDefaults |-> FALSE, coerceTypes |-> FALSE]

\* new Ajv({ useDefaults: true, coerceTypes: 'array' })
ajv == [useDefaults |-> TRUE, coerceTypes |-> TRUE]

\* ajv.addFormat('int32' | 'int64', value => Number.isInteger(+value)).  A
\* format constrains strings only; no enumerated schema names another one.
FormatOfNumber(name, x) ==
    IF name \in {"int32", "int64"} THEN ~x.nan /\ IsWhole(x.v) ELSE TRUE

FormatOk(name, s) == FormatOfNumber(name, ToNumber(s))

\* The type keyword on a value as it stands.
CheckType(type, d) ==
    CASE type = "integer" -> d.t = "number" /\ IsWhole(d.n)
      [] type = "number"  -> d.t = "number"
      [] type = "string"  -> d.t = "string"
      [] type = "object"  -> d.t = "object"
      [] type = "null"    -> d.t = "null"
      [] OTHER -> FALSE

\* coerceTypes: the value a mistyped datum is replaced by, when there is one.
\*   string:          a number becomes '' + data, null becomes ''
\*   number, integer: null becomes 0; a string becomes +data provided
\*                    data && data == +data (&& !(data % 1) for integer)
StringToNumber(type, d, x) ==
    IF /\ d.s # << >>
       /\ ~x.nan
       /\ (type = "integer" => IsWhole(x.v))
    THEN [ok |-> TRUE, data |-> Num(x.v)]
    ELSE [ok |-> FALSE, data |-> d]

CoerceTo(type, d) ==
    CASE type = "string" /\ d.t = "number" ->
             [ok |-> TRUE, data |-> Str(NumberToString(d.n))]
      [] type = "string" /\ d.t = "null" ->
             [ok |-> TRUE, data |-> Str(<< >>)]
      [] type \in {"number", "integer"} /\ d.t = "null" ->
             [ok |-> TRUE, data |-> Num(0)]
      [] type \in {"number", "integer"} /\ d.t = "string" ->
             StringToNumber(type, d, ToNumber(d.s))
      [] OTHER -> [ok |-> FALSE, data |-> d]

TypeRule(opts, type, d) ==
    IF CheckType(type, d) THEN [ok |-> TRUE, data |-> d]
    ELSE IF opts.coerceTypes THEN CoerceTo(type, d)
    ELSE [ok |-> FALSE, data |-> d]

Pass(d) == [valid |-> TRUE, data |-> d, errors |-> << >>]
Fail(d, keyword, path) ==
    [valid |-> FALSE, data |-> d,
     errors |-> << [keyword |-> keyword, dataPath |-> path] >>]

\* The order in which the properties of a schema are visited: the order of
\* the declarations, which every enumerated contract keeps.
KeyOrder == << "id", "limit", "price", "tag", "x-token", "file", "name",
              "code", "message" >>

RECURSIVE SetToSeq(_)
SetToSeq(S) ==
    IF S = {} THEN << >>
    ELSE LET k == CHOOSE x \in S : TRUE IN << k >> \o SetToSeq(S \ {k})

KeysInOrder(S) ==
    SelectSeq(KeyOrder, LAMBDA k : k \in S)
        \o SetToSeq(S \ {KeyOrder[i] : i \in 1..Len(KeyOrder)})

\* useDefaults: a missing property that declares a default receives it.
WithDefaults(opts, schema, f) ==
    IF opts.useDefaults /\ "properties" \in DOMAIN schema
    THEN LET P    == schema.properties
             fill == {k \in DOMAIN P : "default" \in DOMAIN P[k] /\ k \notin DOMAIN f}
         IN  [k \in DOMAIN f \cup fill |-> IF k \in DOMAIN f THEN f[k] ELSE P[k].default]
    ELSE f

MissingRequired(schema, f) ==
    IF "required" \in DOMAIN schema
    THEN SelectSeq(schema.required, LAMBDA k : k \notin DOMAIN f)
    ELSE << >>

Additional(schema, f) ==
    IF "additionalProperties" \in DOMAIN schema /\ schema.additionalProperties = FALSE
    THEN DOMAIN f \ (IF "properties" \in DOMAIN schema THEN DOMAIN schema.properties ELSE {})
    ELSE {}

RECURSIVE Validate(_, _, _, _)
RECURSIVE ValidateProperties(_, _, _, _, _)
RECURSIVE ValidateAnyOf(_, _, _, _, _)
RECURSIVE ObjectRules(_, _, _, _)
RECURSIVE OwnRules(_, _, _, _)
RECURSIVE AfterOwn(_, _, _, _)
RECURSIVE AfterType(_, _, _, _, _)
RECURSIVE AfterProperty(_, _, _, _, _, _)
RECURSIVE AfterAlternative(_, _, _, _, _, _)

\* The rules of an object d (its defaults filled in): required,
\* additionalProperties, properties.
ObjectRules(opts, schema, d, path) ==
    IF MissingRequired(schema, d.f) # << >> THEN Fail(d, "required", path)
    ELSE IF Additional(schema, d.f) # {}
    THEN Fail(d, "additionalProperties", path)
    ELSE IF "properties" \in DOMAIN schema
    THEN ValidateProperties(opts, schema.properties,
             KeysInOrder(DOMAIN schema.properties \cap DOMAIN d.f), d, path)
    ELSE Pass(d)

\* The rules of the datum's own type: format (a string); the object rules,
\* after useDefaults has filled the missing properties (an object).
OwnRules(opts, schema, d, path) ==
    IF d.t = "string" /\ "format" \in DOMAIN schema
       /\ ~FormatOk(schema.format, d.s)
    THEN Fail(d, "format", path)
    ELSE IF d.t # "object" THEN Pass(d)
    ELSE ObjectRules(opts, schema, Obj(WithDefaults(opts, schema, d.f)), path)

\* anyOf runs after the rules of the datum's own type.
AfterOwn(opts, schema, own, path) ==
    IF ~own.valid THEN own
    ELSE IF "anyOf" \in DOMAIN schema
    THEN ValidateAnyOf(opts, schema.anyOf, 1, own.data, path)
    ELSE own

\* The type keyword decides first; a coerced datum goes on to the other rules.
AfterType(opts, schema, d, typed, path) ==
    IF ~typed.ok THEN Fail(d, "type", path)
    ELSE AfterOwn(opts, schema, OwnRules(opts, schema, typed.data, path), path)

\* The compiled validation function of `schema` applied to d (at dataPath
\* path): whether d is valid, d as coercion and defaults leave it, and the
\* errors (the first failure; Ajv runs without allErrors).
Validate(opts, schema, d, path) ==
    AfterType(opts, schema, d,
              IF "type" \in DOMAIN schema THEN TypeRule(opts, schema.type, d)
              ELSE [ok |-> TRUE, data |-> d],
              path)


\* The properties keyword: each present property against its schema, in
\* order; a coerced value is written back into the object.
ValidateProperties(opts, P, names, d, path) ==
    IF names = << >> THEN Pass(d)
    ELSE AfterProperty(opts, P, names, d, path,
             Validate(opts, P[Head(names)], d.f[Head(names)],
                      path \o "." \o Head(names)))

\* r is what the schema of the first of `names` made of its value.
AfterProperty(opts, P, names, d, path, r) ==
    IF ~r.valid THEN [valid |-> FALSE, data |-> d, errors |-> r.errors]
    ELSE ValidateProperties(opts, P, Tail(names),
                            Obj(SetField(d.f, Head(names), r.data)), path)

\* The anyOf keyword: the first alternative that accepts decides.
ValidateAnyOf(opts, alts, i, d, path) ==
    IF i > Len(alts) THEN Fail(d, "anyOf", path)
    ELSE AfterAlternative(opts, alts, i, d, path, Validate(opts, alts[i], d, path))

\* r is what alternative i made of d.
AfterAlternative(opts, alts, i, d, path, r) ==
    IF r.valid THEN r ELSE ValidateAnyOf(opts, alts, i + 1, d, path)

--------------------------------------------------------------------------
(* core.ts: the deriver *)

\* The list without put and delete.
supportedMethodsShort == << "get", "post", "options", "head", "patch" >>

supportedMethods == << "get", "post", "put", "delete", "options", "head", "patch" >>

\* The object schema without properties that admits no property.
ClosedSchema ==
    [type |-> "object", additionalProperties |-> FALSE, properties |-> NoFields]

\* {}: the schema without a keyword.
EmptySchema == << >>

defaultResponse == [payload |-> EmptySchema, headers |-> EmptySchema]

Has(obj, k) == k \in DOMAIN obj

\* omit(keys, obj)
Omit(ks, obj) == [k \in DOMAIN obj \ ks |-> obj[k]]

\* merge with its arguments the other way round: a wins.
MergeFirstWins(a, b) ==
    [k \in DOMAIN a \cup DOMAIN b |-> IF k \in DOMAIN a THEN a[k] ELSE b[k]]

\* merge(a, b): the own properties of a, then of b; b wins.
Merge(a, b) == [k \in DOMAIN a \cup DOMAIN b |-> IF k \in DOMAIN b THEN b[k] ELSE a[k]]

\* reduce(assocPath(['properties', param.name], omit([...], param)), ...)
RECURSIVE AssocParams(_, _)
AssocParams(schema, params) ==
    IF params = << >> THEN schema
    ELSE LET param == Head(params)
             next  == [schema EXCEPT !.properties =
                          SetField(@, param.name, Omit({"in", "name", "required"}, param))]
         IN  AssocParams(next, Tail(params))

\* baseSchema, whatever additionalProperties is asked for: always open.
baseSchemaOpen(requiredParams, additionalProperties) ==
    IF requiredParams # << >>
    THEN [type |-> "object", additionalProperties |-> TRUE, properties |-> NoFields,
          required |-> [i \in 1..Len(requiredParams) |-> requiredParams[i].name]]
    ELSE [type |-> "object", additionalProperties |-> TRUE, properties |-> NoFields]

\* const baseSchema = { type: 'object', additionalProperties, properties: {},
\*                      required: requiredParams.length ? names : undefined }
baseSchema(requiredParams, additionalProperties) ==
    IF requiredParams # << >>
    THEN [type |-> "object", additionalProperties |-> additionalProperties,
          properties |-> NoFields,
          required |-> [i \in 1..Len(requiredParams) |-> requiredParams[i].name]]
    ELSE [type |-> "object", additionalProperties |-> additionalProperties,
          properties |-> NoFields]

createSchema(parameters, type, additionalProperties) ==
    LET filteredParams == SelectSeq(parameters, LAMBDA param : param.in = type)
        requiredParams == SelectSeq(filteredParams,
                              LAMBDA param : Has(param, "required") /\ param.required = TRUE)
    IN  IF filteredParams # << >>
        THEN AssocParams(baseSchema(requiredParams, additionalProperties), filteredParams)
        ELSE EmptySchema

createPayloadValidateSchema(parameters) ==
    LET bodies == SelectSeq(parameters, LAMBDA param : param.in = "body")
    IN  IF bodies = << >>
        THEN createSchema(parameters, "formData", FALSE)
        ELSE Head(bodies).schema

swaggerResponseToAPIResponse(response) ==
    [payload |-> IF Has(response, "schema") THEN response.schema ELSE EmptySchema,
     headers |-> IF Has(response, "headers") THEN response.headers
                 ELSE [type |-> "object", additionalProperties |-> TRUE]]

operationToValidateParams(method, operation) ==
    LET parameters == IF Has(operation, "parameters") THEN operation.parameters ELSE << >>
        declared   == IF Has(operation, "responses")
                      THEN [k \in DOMAIN operation.responses |->
                               swaggerResponseToAPIResponse(operation.responses[k])]
                      ELSE NoFields
    IN  [params    |-> createSchema(parameters, "path", FALSE),
         query     |-> createSchema(parameters, "query", FALSE),
         headers   |-> createSchema(parameters, "header", TRUE),
         payload   |-> createPayloadValidateSchema(parameters),
         responses |-> Merge([default |-> defaultResponse], declared)]

\* The (path, method) pairs in the order chain/filter visit them: the paths
\* in the order of the contract, the methods in the order of supportedMethods.
RECURSIVE PathMethods(_, _)
PathMethods(paths, i) ==
    IF i > Len(paths) THEN << >>
    ELSE LET pathMethods == SelectSeq(supportedMethods,
                                LAMBDA method : Has(paths[i].pathConfig, method))
         IN  [j \in 1..Len(pathMethods) |-> [path |-> i, method |-> pathMethods[j]]]
             \o PathMethods(paths, i + 1)

\* pathMethodOperations: the operation each route is derived from, in the
\* order of the routes.
pathMethodOperations(spec) ==
    [i \in 1..Len(PathMethods(spec.paths, 1)) |->
        spec.paths[PathMethods(spec.paths, 1)[i].path]
            .pathConfig[PathMethods(spec.paths, 1)[i].method]]

\* loadRoutes(spec).  random[i] is what generateRandomString() returns
\* for the i-th route, should it be called.
loadRoutes(spec, random) ==
    LET pms == PathMethods(spec.paths, 1)
    IN  [i \in 1..Len(pms) |->
            LET pathUri   == spec.paths[pms[i].path].pathUri
                method    == pms[i].method
                operation == spec.paths[pms[i].path].pathConfig[method]
                fromSpec(k) == IF Has(spec, k) THEN spec[k] ELSE << >>
            IN  [uri      |-> (IF Has(spec, "basePath") THEN spec.basePath ELSE "undefined")
                              \o pathUri,
                 method   |-> method,
                 consumes |-> IF Has(operation, "consumes") THEN operation.consumes
                              ELSE fromSpec("consumes"),
                 produces |-> IF Has(operation, "produces") THEN operation.produces
                              ELSE fromSpec("produces"),
                 validate |-> operationToValidateParams(method, operation),
                 description |-> IF Has(operation, "description")
                                 THEN operation.description ELSE "",
                 tags     |-> IF Has(operation, "tags") THEN operation.tags ELSE << >>,
                 id       |-> IF Has(operation, "operationId") /\ operation.operationId # ""
                              THEN operation.operationId
                              ELSE "operation_" \o random[i]]]

\* loadRoutes rejects where reading a property throws: operation.consumes
\* of a method entry that is null.  Nothing else in it throws: keys of a
\* missing `paths` is the empty list, a missing optional field is replaced.
loadRoutesThrows(spec) ==
    \E i \in 1..Len(pathMethodOperations(spec)) : pathMethodOperations(spec)[i] = Null

--------------------------------------------------------------------------
(* validate.ts: the memoized compiler and validate *)

\* No object: undefined or null.
Nil == "nil"

\* A cache keyed by the schema object instead: one key per reference.
memoKeyByReference(schemaRef, schema) == [ref |-> schemaRef, value |-> schema]

\* memoize keys its cache by the printed form of the argument, which two
\* structurally equal schemas share whatever object they are.
memoKey(schemaRef, schema) == [ref |-> Nil, value |-> schema]

\* A cache that never finds what it stored.
cacheHasNothing(c, key) == FALSE

cacheHas(c, key) == key \in DOMAIN c

\* How often ajv.compile ran on a schema.
Compilations(n, schema) == IF schema \in DOMAIN n THEN n[schema] ELSE 0

\* getValidateFunction(schema) = memoize(schema => ajv.compile(schema)):
\* the cache and the compilation counts after the call, and the compiled
\* function it returns.  A compiled function is named by its schema and by
\* the how-manieth compilation of that schema made it.
getValidateFunction(c, n, schemaRef, schema) ==
    LET key == memoKey(schemaRef, schema)
        made == [schema |-> schema, serial |-> Compilations(n, schema) + 1]
    IN  IF cacheHas(c, key)
        THEN [cache |-> c, compiled |-> n, fn |-> c[key]]
        ELSE [cache |-> [k \in DOMAIN c \cup {key} |-> IF k = key THEN made ELSE c[k]],
              compiled |-> [s \in DOMAIN n \cup {schema} |->
                               IF s = schema THEN made.serial ELSE n[s]],
              fn |-> made]

\* No copy: the validator is handed the caller's object.
cloneNothing(h, ref, fresh) == [ref |-> ref, heap |-> h]

\* clone(attributes): a fresh object with the same content.
clone(h, ref, fresh) ==
    [ref |-> fresh, heap |-> [x \in DOMAIN h \cup {fresh} |-> IF x = fresh THEN h[ref] ELSE h[x]]]

\* The output argument the callback is not given (undefined).
NoObject == << >>

\* validate.errors: null, or the list of errors.
NoErrors == [null |-> TRUE, list |-> << >>]
Errors(list) == [null |-> FALSE, list |-> list]

\* Without the test of validate.errors: a ValidationError in either case.
failureAlwaysValidation(errors) ==
    [error |-> "ValidationError", errors |-> errors.list, output |-> NoObject]

\* What validate passes to its callback when the compiled function returns
\* false: ValidationError if validate.errors is truthy, else UnknownError.
failure(errors) ==
    IF ~errors.null
    THEN [error |-> "ValidationError", errors |-> errors.list, output |-> NoObject]
    ELSE [error |-> "UnknownError", errors |-> << >>, output |-> NoObject]

\* validate.errors after the compiled function ran: null when it accepted;
\* when it rejected, the errors it collected (Ajv collects at least one), or
\* null where the function leaves none (`detail` is FALSE).
EngineErrors(run, detail) ==
    IF ~run.valid /\ detail THEN Errors(run.errors) ELSE NoErrors

\* The rest of validate once the compiled function has run: the branch on
\* result and on validate.errors, and the one call of the callback.
Callback(got, cloned, run, detail) ==
    [cache    |-> got.cache,
     compiled |-> got.compiled,
     heap     |-> [cloned.heap EXCEPT ![cloned.ref] = run.data],
     fn       |-> got.fn,
     result   |-> run.valid,
     errors   |-> EngineErrors(run, detail),
     callback |-> IF ~run.valid
                  THEN failure(EngineErrors(run, detail))
                  ELSE [error |-> "null", errors |-> << >>, output |-> cloned.ref]]

\* const result = validate(clonedAttributes)
Run(got, cloned, detail) ==
    Callback(got, cloned,
             Validate(ajv, got.fn.schema, cloned.heap[cloned.ref], ""), detail)

\* validate(schema, attributes, callback).  schema is the object schemaRef,
\* attributes the object `attributes` of heap h, `fresh` the object clone
\* allocates.  The result is the cache, the counts and the heap after the
\* call, the compiled function that ran, what it returned and left in
\* validate.errors, and the arguments of the one callback call.
validate(c, n, h, schemaRef, schema, attributes, fresh, detail) ==
    Run(getValidateFunction(c, n, schemaRef, schema),
        clone(h, attributes, fresh), detail)

--------------------------------------------------------------------------
(* hapiIntegration.ts: handlers, route configurations *)

\* A handler is opaque: the function it is and the wrappers put around it.
Handler(name) == [fn |-> name, wrap |-> << >>]

\* A missing or falsy entry of the handler table.
NoHandler == Handler(Nil)

notImplementedHandler == Handler("notImplementedHandler")

\* handlers[key]
Lookup(handlers, key) == IF key \in DOMAIN handlers THEN handlers[key] ELSE NoHandler

\* The handlerTransform option: undefined, a string, a function, or a value
\* of another type.
NoTransform == [kind |-> "undefined", name |-> ""]
StringTransform(name) == [kind |-> "string", name |-> name]
FunctionTransform(name) == [kind |-> "function", name |-> name]
NumberTransform == [kind |-> "number", name |-> "1"]

\* !transform: undefined and the empty string are falsy.
Falsy(transform) ==
    transform.kind = "undefined" \/ (transform.kind = "string" /\ transform.name = "")

\* The transform that hands every handler back as it is.
transformHandlerUnwrapped(transform, handler) ==
    IF handler = NoHandler \/ Falsy(transform)
          \/ transform.kind \in {"string", "function"}
    THEN [threw |-> FALSE, value |-> handler]
    ELSE [threw |-> TRUE, value |-> NoHandler]

\* transformHandler(transform, handler): the value returned, or that it threw.
transformHandler(transform, handler) ==
    IF handler = NoHandler THEN [threw |-> FALSE, value |-> handler]
    ELSE IF Falsy(transform) THEN [threw |-> FALSE, value |-> handler]
    ELSE IF transform.kind = "string"
    THEN [threw |-> FALSE,
          value |-> [handler EXCEPT !.wrap = Append(@, [by |-> "key", name |-> transform.name])]]
    ELSE IF transform.kind = "function"
    THEN [threw |-> FALSE,
          value |-> [handler EXCEPT !.wrap = Append(@, [by |-> "call", name |-> transform.name])]]
    ELSE [threw |-> TRUE, value |-> NoHandler]

\* maxBytes: 1024 * 1024 * 32
maxBytes == 33554432

\* The validators with the payload validator attached whatever the method.
makeHapiValidateAlways(params, hasPayload) ==
    [failAction |-> "requestFailAction",
     query      |-> params.query,
     params     |-> params.params,
     headers    |-> params.headers,
     payload    |-> params.payload]

\* makeHapiValidate(params, hasPayload).  A validator closure is the schema
\* it hands to validate.
makeHapiValidate(params, hasPayload) ==
    LET base == [failAction |-> "requestFailAction",
                 query      |-> params.query,
                 params     |-> params.params,
                 headers    |-> params.headers]
    IN  IF hasPayload THEN Merge(base, [payload |-> params.payload]) ELSE base

\* A validator of the response's headers schema instead.
makeHapiResponseValidateHeaders(response) == response.headers

\* makeHapiResponseValidate(response): the closure calls validate with
\* response.payload.
makeHapiResponseValidate(response) == response.payload

\* handlers[id] when the route has an id, else handlers["<method> <uri>"];
\* the stand-in when that entry is missing.
resolveHandler(handlers, route) ==
    LET id      == route.id
        handler == IF id # "" THEN Lookup(handlers, id)
                   ELSE Lookup(handlers, route.method \o " " \o route.uri)
    IN  IF handler = NoHandler THEN notImplementedHandler ELSE handler

\* The lookup that falls through from the id to the composite key.
resolveHandlerFallThrough(handlers, route) ==
    LET byId  == Lookup(handlers, route.id)
        byKey == Lookup(handlers, route.method \o " " \o route.uri)
    IN  IF route.id # "" /\ byId # NoHandler THEN byId
        ELSE IF byKey # NoHandler THEN byKey
        ELSE notImplementedHandler

makeHapiRoute(handlers, route) ==
    LET handler    == resolveHandler(handlers, route)
        hasPayload == route.method # "get" /\ route.method # "head"
        validators == [validate |-> makeHapiValidate(route.validate, hasPayload)]
        config1    == IF hasPayload
                      THEN Merge(validators,
                               [payload |-> [allow    |-> route.consumes,
                                             parse    |-> TRUE,
                                             maxBytes |-> maxBytes,
                                             output   |-> "data"]])
                      ELSE validators
        response0  == [failAction |-> "responseFailAction"]
        response1  == IF Has(route.validate.responses, "default")
                      THEN Merge(response0,
                               [schema |-> makeHapiResponseValidate(
                                               route.validate.responses.default)])
                      ELSE response0
        responsesWithoutDefault == Omit({"default"}, route.validate.responses)
        response   == IF DOMAIN responsesWithoutDefault # {}
                      THEN Merge(response1,
                               [status |-> [k \in DOMAIN responsesWithoutDefault |->
                                   makeHapiResponseValidate(responsesWithoutDefault[k])]])
                      ELSE response1
    IN  [method  |-> route.method,
         path    |-> route.uri,
         handler |-> handler,
         config  |-> Merge(config1, [response |-> response])]

--------------------------------------------------------------------------
(* The contracts, handler tables and requests that are enumerated *)

P_id    == [name |-> "id", in |-> "path", required |-> TRUE,
            type |-> "integer", format |-> "int64"]
P_limit == [name |-> "limit", in |-> "query", required |-> FALSE,
            type |-> "integer", format |-> "int32"]
P_price == [name |-> "price", in |-> "query", required |-> TRUE, type |-> "number"]
P_tag   == [name |-> "tag", in |-> "query", type |-> "string",
            default |-> Str(<< "a" >>)]
P_token == [name |-> "x-token", in |-> "header", required |-> TRUE, type |-> "string"]
P_file  == [name |-> "file", in |-> "formData", type |-> "string"]

Pet == [type |-> "object", required |-> << "name" >>,
        properties |-> [name |-> [type |-> "string"], tag |-> [type |-> "string"]]]

ErrorModel == [type |-> "object", required |-> << "code", "message" >>,
               properties |-> [code |-> [type |-> "integer", format |-> "int32"],
                               message |-> [type |-> "string"]]]

P_body == [name |-> "pet", in |-> "body", required |-> TRUE, schema |-> Pet]

\* The same schema without the type keyword, and with a default for tag.
PetUntyped == Omit({"type"}, Pet)
PetDefaults ==
    [Pet EXCEPT !.properties =
        [name |-> [type |-> "string"],
         tag  |-> [type |-> "string", default |-> Str(<< "a" >>)]]]

P_bodyUntyped  == [P_body EXCEPT !.schema = PetUntyped]
P_bodyDefaults == [P_body EXCEPT !.schema = PetDefaults]

Responses(k1, r1, k2, r2) == [k \in {k1, k2} |-> IF k = k1 THEN r1 ELSE r2]

findPets ==
    [operationId |-> "findPets",
     parameters  |-> << P_limit >>,
     responses   |-> Responses("200", [description |-> "pets", schema |-> Pet],
                               "default", [description |-> "error", schema |-> ErrorModel])]

addPet ==
    [operationId |-> "addPet",
     parameters  |-> << P_body >>,
     responses   |-> Field("200", [description |-> "pet", schema |-> Pet])]

findPetById ==
    [operationId |-> "find pet by id",
     parameters  |-> << P_id >>,
     responses  |-> Responses("200", [description |-> "pet", schema |-> Pet],
                              "default", [description |-> "error", schema |-> ErrorModel])]

deletePet ==
    [operationId |-> "deletePet",
     parameters  |-> << P_id >>,
     responses   |-> Field("204", [description |-> "deleted"])]

Petstore ==
    [basePath |-> "/api",
     consumes |-> << "application/json" >>,
     produces |-> << "application/json" >>,
     paths    |-> << [pathUri |-> "/pets",
                      pathConfig |-> [get |-> findPets, post |-> addPet]],
                     [pathUri |-> "/pets/{id}",
                      pathConfig |-> [get |-> findPetById, delete |-> deletePet,
                                      parameters |-> << >>]] >>]

\* The same operations, none with an operationId.
Anonymous ==
    [Petstore EXCEPT !.paths =
        << [pathUri |-> "/pets",
            pathConfig |-> [get  |-> Omit({"operationId"}, findPets),
                            post |-> Omit({"operationId"}, addPet)]],
           [pathUri |-> "/pets/{id}",
            pathConfig |-> [delete |-> Omit({"operationId"}, deletePet)]] >>]

\* A second body parameter.
P_owner == [name |-> "owner", in |-> "body", required |-> TRUE, schema |-> ErrorModel]

\* addPet declares two body parameters.
TwoBodies ==
    [Petstore EXCEPT !.paths =
        << [pathUri |-> "/pets",
            pathConfig |-> [get  |-> findPets,
                            post |-> [addPet EXCEPT !.parameters = << P_body, P_owner >>]]] >>]

\* The entry of a method is null.
Broken ==
    [Petstore EXCEPT !.paths =
        << [pathUri |-> "/pets", pathConfig |-> [get |-> findPets, post |-> Null]] >>]

\* One path whose entry has, next to put, keys that are no supported
\* method (trace, parameters), and a get and a head that declare a
\* formData and a body parameter.  put declares no parameter and has a
\* consumes list of its own.
Extras ==
    [basePath |-> "/api",
     consumes |-> << "application/json" >>,
     paths    |-> << [pathUri |-> "/files",
                      pathConfig |->
                         [get   |-> [operationId |-> "getFile",
                                     parameters  |-> << P_file >>],
                          head  |-> [operationId |-> "headFile",
                                     parameters  |-> << P_body >>],
                          put   |-> [operationId |-> "putFile",
                                     consumes    |-> << "text/plain" >>],
                          trace |-> [operationId |-> "traceFile"],
                          parameters |-> << P_limit >>]],
                     [pathUri |-> "/none",
                      pathConfig |-> [parameters |-> << >>]] >>]

\* Handler tables: by operation id, by "<method> <uri>", and empty.
ByIdAndKey ==
    [k \in {"findPets", "addPet", "get /api/pets/{id}"} |->
        CASE k = "findPets" -> Handler("hFind")
          [] k = "addPet" -> Handler("hAdd")
          [] OTHER -> Handler("hGet")]

ByKey ==
    [k \in {"findPets", "delete /api/pets/{id}", "post /api/pets"} |->
        CASE k = "findPets" -> Handler("hFind")
          [] k = "post /api/pets" -> Handler("hPost")
          [] OTHER -> Handler("hDelete")]

WithFalsy == [k \in {"findPets", "addPet"} |->
                 IF k = "findPets" THEN Handler("hFind") ELSE NoHandler]

NoHandlers == NoFields

\* What Math.random().toString(36).substr(2) may return.
RandomStrings == {"k3x", "z81"}

\* The variables of a path template, which the router extracts.
PathVars(uri) == IF uri = "/api/pets/{id}" THEN {"id"} ELSE {}

\* What a handler may reply: a status code and a source; isBoom for an
\* error made with Boom.
Ok200 == [statusCode |-> 200, isBoom |-> FALSE,
          source |-> Obj([name |-> Str(<< "a" >>)])]
Bad200 == [statusCode |-> 200, isBoom |-> FALSE, source |-> Obj(NoFields)]
Created201 == [statusCode |-> 201, isBoom |-> FALSE, source |-> Obj(NoFields)]
NotFound404 == [statusCode |-> 404, isBoom |-> TRUE,
                source |-> Obj([message |-> Str(<< "a" >>)])]
NotImplemented501 == [statusCode |-> 501, isBoom |-> TRUE,
                      source |-> Obj([message |-> Str(<< "a" >>)])]

Replies == {Ok200, Bad200, Created201, NotFound404}

\* response.status[statusCode]: the property name of a status code.
StatusKey(code) ==
    CASE code = 200 -> "200" [] code = 201 -> "201" [] code = 204 -> "204"
      [] code = 400 -> "400" [] code = 404 -> "404" [] code = 500 -> "500"
      [] code = 501 -> "501"

--------------------------------------------------------------------------
(* The state *)

\* Requests the server receives; they are in flight together.
MaxRequests == 2

VARIABLES
    options,    \* what register is called with: schema, handlers, handlerTransform
    reg,        \* register: where it stands, and the routes loadRoutes gave it
    server,     \* the hapi server: the routes registered with server.route
    nextCalls,  \* the calls of register's next callback, in order
    cache,      \* the cache of memoize: key -> compiled function
    compiled,   \* schema -> how often ajv.compile ran on it
    heap,       \* the objects requests and validators work on
    requests,   \* slot -> the request in it
    probe       \* the operation and the datum under derivation (SpecDerive)

vars == << options, reg, server, nextCalls, cache, compiled, heap, requests, probe >>

Slots == 1..MaxRequests

Sources == << "headers", "params", "query", "payload" >>

\* The step after the validation of a source: hapi validates the headers,
\* the path parameters, the query and the payload in this order, each where
\* the route configures a validator for it, and then calls the handler.
After(validators, source) ==
    CASE source = "headers" -> "params"
      [] source = "params"  -> "query"
      [] source = "query"   -> IF Has(validators, "payload") THEN "payload"
                               ELSE "handler"
      [] source = "payload" -> "handler"

NoResponse == [statusCode |-> 0, isBoom |-> FALSE]
NoValidation == [source |-> Nil, detailed |-> FALSE, errors |-> << >>]
NoReply == [statusCode |-> 0, by |-> Nil, validation |-> NoValidation]

Idle == [pc |-> "idle", route |-> 0, at |-> NoFields, calls |-> NoFields,
         events |-> << >>, response |-> NoResponse, reply |-> NoReply]

NoProbe == [stage |-> "none"]

\* The requests that are enumerated for a route: the path variables as the
\* router extracts them (strings), a query, and a payload where the method
\* has one.
\*   get /api/pets            ?limit=4, ?limit=a
\*   post /api/pets           ?limit=4 with a pet, no payload at all
\*   get /api/pets/x          x = 1, x = a
\*   delete /api/pets/x       x = 1
InputsFor(route) ==
    LET none   == Obj(NoFields)
        limit4 == Obj([limit |-> Str(<< "4" >>)])
        limitA == Obj([limit |-> Str(<< "a" >>)])
        id(s)  == Obj([id |-> Str(s)])
        in(p, q, b) == [headers |-> Obj([host |-> Str(<< "a" >>)]),
                        params |-> p, query |-> q, payload |-> b]
    IN  IF PathVars(route.path) = {}
        THEN IF route.method = "get"
             THEN {in(none, limit4, Null), in(none, limitA, Null)}
             ELSE {in(none, limit4, Obj([name |-> Str(<< "a" >>)])),
                   in(none, none, Null)}
        ELSE IF route.method = "get"
        THEN {in(id(<< "1" >>), none, Null), in(id(<< "a" >>), none, Null)}
        ELSE {in(id(<< "1" >>), none, Null)}

--------------------------------------------------------------------------
(* register *)

\* const routes = await loadRoutes(schema)
RegisterLoad ==
    /\ reg.pc = "start"
    /\ ~loadRoutesThrows(options.schema)
    /\ \E random \in [1..Len(PathMethods(options.schema.paths, 1)) -> RandomStrings] :
          reg' = [pc |-> "loaded", routes |-> loadRoutes(options.schema, random),
                  operations |-> pathMethodOperations(options.schema)]
    /\ UNCHANGED << options, server, nextCalls, cache, compiled, heap, requests, probe >>

\* await loadRoutes(schema) throws what loadRoutes rejected with:
\* catch (e) { next(e) }
RegisterLoadFails ==
    /\ reg.pc = "start"
    /\ loadRoutesThrows(options.schema)
    /\ nextCalls' = Append(nextCalls, "TypeError")
    /\ reg' = [reg EXCEPT !.pc = "failed"]
    /\ UNCHANGED << options, server, cache, compiled, heap, requests, probe >>

\* mapObjIndexed(curry(transformHandler)(handlerTransform), handlers)
Transformed == [k \in DOMAIN options.handlers |->
                   transformHandler(options.handlerTransform, options.handlers[k])]

TransformThrows == \E k \in DOMAIN Transformed : Transformed[k].threw

\* The values transformHandler returned: the table makeHapiRoute is given.
transformedHandlers == [k \in DOMAIN Transformed |-> Transformed[k].value]

\* hapiRoutes, server.route(hapiRoutes), next()
RegisterRoute ==
    /\ reg.pc = "loaded"
    /\ ~TransformThrows
    /\ LET hapiRoutes == [i \in 1..Len(reg.routes) |->
                             makeHapiRoute(transformedHandlers, reg.routes[i])]
       IN  server' = [server EXCEPT !.routes = @ \o hapiRoutes]
    /\ nextCalls' = Append(nextCalls, "undefined")
    /\ reg' = [reg EXCEPT !.pc = "done"]
    /\ UNCHANGED << options, cache, compiled, heap, requests, probe >>

\* The same statements with a next that throws when called without an
\* error: the throw is inside the try, so catch (e) { next(e) } calls next
\* a second time, with what next threw.
RegisterNextThrows ==
    /\ reg.pc = "loaded"
    /\ ~TransformThrows
    /\ LET hapiRoutes == [i \in 1..Len(reg.routes) |->
                             makeHapiRoute(transformedHandlers, reg.routes[i])]
       IN  server' = [server EXCEPT !.routes = @ \o hapiRoutes]
    /\ nextCalls' = nextCalls \o << "undefined", "thrown by next" >>
    /\ reg' = [reg EXCEPT !.pc = "recalled"]
    /\ UNCHANGED << options, cache, compiled, heap, requests, probe >>

\* The catch that swallows the error: next().
RegisterCatchSilent ==
    /\ reg.pc = "loaded"
    /\ TransformThrows
    /\ nextCalls' = Append(nextCalls, "undefined")
    /\ reg' = [reg EXCEPT !.pc = "failed"]
    /\ UNCHANGED << options, server, cache, compiled, heap, requests, probe >>

\* catch (e) { next(e) }
RegisterCatch ==
    /\ reg.pc = "loaded"
    /\ TransformThrows
    /\ nextCalls' = Append(nextCalls, "Invalid transform typeof")
    /\ reg' = [reg EXCEPT !.pc = "failed"]
    /\ UNCHANGED << options, server, cache, compiled, heap, requests, probe >>

--------------------------------------------------------------------------
(* A request through a registered route *)

\* The router delivers a request to a route.  The slots number the requests
\* in the order of their arrival.
Inject(slot) ==
    /\ reg.pc = "done"
    /\ requests[slot].pc = "idle"
    /\ \A earlier \in 1..(slot - 1) : requests[earlier].pc # "idle"
    /\ \E i \in 1..Len(server.routes) :
          \E input \in InputsFor(server.routes[i]) :
             LET own == {<< slot, Sources[j], "orig" >> : j \in 1..Len(Sources)}
             IN  /\ requests' = [requests EXCEPT ![slot] =
                        [Idle EXCEPT !.pc = "headers", !.route = i,
                             !.at = [s \in {Sources[j] : j \in 1..Len(Sources)} |->
                                        << slot, s, "orig" >>]]]
                 /\ heap' = [x \in DOMAIN heap \cup own |->
                                IF x \in own THEN input[x[2]] ELSE heap[x]]
    /\ UNCHANGED << options, reg, server, nextCalls, cache, compiled, probe >>

\* What a validator call leaves on record.
Call(schema, in, before, v) ==
    [schema |-> schema, in |-> in, before |-> before, fn |-> v.fn,
     result |-> v.result, errors |-> v.errors, callback |-> v.callback]

\* The failure handler that replies without the validation entry.
requestFailActionUntagged(source, callback) ==
    [events |-> << "log", "reply" >>,
     reply  |-> [statusCode |-> 400, by |-> "requestFailAction",
                 validation |-> NoValidation]]

\* requestFailAction(request, reply, source, boomError): log, tag the
\* payload of the 400 with the source (and the errors of a
\* ValidationError), reply.
requestFailAction(source, callback) ==
    [events |-> << "log", "reply" >>,
     reply  |-> [statusCode |-> 400, by |-> "requestFailAction",
                 validation |-> [source |-> source,
                                 detailed |-> callback.error = "ValidationError",
                                 errors |-> IF callback.error = "ValidationError"
                                            THEN callback.errors ELSE << >>]]]

\* The failure handler that replies with the validation error as a 400.
responseFailActionBadRequest(callback) ==
    [events |-> << "log", "reply" >>,
     reply  |-> [statusCode |-> 400, by |-> "responseFailAction",
                 validation |-> NoValidation]]

\* responseFailAction(request, reply, error): log, reply with a 500.
responseFailAction(callback) ==
    [events |-> << "log", "reply" >>,
     reply  |-> [statusCode |-> 500, by |-> "responseFailAction",
                 validation |-> NoValidation]]

\* validate has called back with v for the source of the request in slot:
\* the value it passes on replaces the source's, an error goes to failAction.
InputValidated(slot, source, schema, v) ==
    LET req    == requests[slot]
        route  == server.routes[req.route]
        call   == Call(schema, req.at[source], heap[req.at[source]], v)
        failed == requestFailAction(source, v.callback)
    IN  /\ cache' = v.cache
        /\ compiled' = v.compiled
        /\ heap' = v.heap
        /\ requests' = [requests EXCEPT ![slot] =
              IF v.callback.error = "null"
              THEN [req EXCEPT !.pc = After(route.config.validate, source),
                               !.at = SetField(@, source, v.callback.output),
                               !.calls = SetField(@, source, call)]
              ELSE [req EXCEPT !.pc = "replied",
                               !.calls = SetField(@, source, call),
                               !.events = failed.events,
                               !.reply = failed.reply]]

\* The validator of one source of the request runs: the closure
\* makeHapiValidate made calls validate with the value of the source.
ValidateInput(slot) ==
    LET req    == requests[slot]
        source == req.pc
        route  == server.routes[req.route]
    IN  /\ req.pc \in {Sources[j] : j \in 1..Len(Sources)}
        /\ \E detail \in BOOLEAN :
              InputValidated(slot, source, route.config.validate[source],
                  validate(cache, compiled, heap, << req.route, source >>,
                           route.config.validate[source], req.at[source],
                           << slot, source, "copy" >>, detail))
        /\ UNCHANGED << options, reg, server, nextCalls, probe >>

\* A stand-in that replies as any handler may.
RepliesOfAny(handler) == Replies

\* What a handler may reply: the stand-in replies Boom.notImplemented();
\* what any other handler replies is its own affair.
RepliesOf(handler) ==
    IF handler = notImplementedHandler THEN {NotImplemented501} ELSE Replies

\* The handler of the route replies.
Handle(slot) ==
    LET req   == requests[slot]
        route == server.routes[req.route]
        out   == << slot, "response", "orig" >>
    IN  /\ req.pc = "handler"
        /\ \E r \in RepliesOf(route.handler) :
              /\ requests' = [requests EXCEPT ![slot] =
                     [req EXCEPT !.pc = "response",
                                 !.at = SetField(@, "response", out),
                                 !.response = [statusCode |-> r.statusCode,
                                               isBoom |-> r.isBoom]]]
              /\ heap' = [x \in DOMAIN heap \cup {out} |->
                             IF x = out THEN r.source ELSE heap[x]]
        /\ UNCHANGED << options, reg, server, nextCalls, cache, compiled, probe >>

\* The response configuration selects the validator of a reply: the one of
\* its status code, else the one of `schema`; a reply of 400 or above
\* without a validator of its own is not validated.
ResponseSchema(response, statusCode) ==
    LET key == StatusKey(statusCode)
        own == Has(response, "status") /\ Has(response.status, key)
    IN  IF own THEN [validated |-> TRUE, schema |-> response.status[key]]
        ELSE IF statusCode >= 400 \/ ~Has(response, "schema")
        THEN [validated |-> FALSE, schema |-> EmptySchema]
        ELSE [validated |-> TRUE, schema |-> response.schema]

\* The reply a handler's response becomes when nothing replaces it.
Sent(req) ==
    [statusCode |-> req.response.statusCode, by |-> "handler",
     validation |-> NoValidation]

\* validate has called back with v for the response of the request in slot.
ResponseValidated(slot, schema, v) ==
    LET req    == requests[slot]
        call   == Call(schema, req.at["response"], heap[req.at["response"]], v)
        failed == responseFailAction(v.callback)
    IN  /\ cache' = v.cache
        /\ compiled' = v.compiled
        /\ heap' = v.heap
        /\ requests' = [requests EXCEPT ![slot] =
              IF v.callback.error = "null"
              THEN [req EXCEPT !.pc = "replied",
                               !.calls = SetField(@, "response", call),
                               !.reply = Sent(req)]
              ELSE [req EXCEPT !.pc = "replied",
                               !.calls = SetField(@, "response", call),
                               !.events = failed.events,
                               !.reply = failed.reply]]

\* The validator picked for the reply runs, or none does.
ResponsePicked(slot, picked) ==
    LET req == requests[slot]
    IN  IF ~picked.validated
        THEN /\ requests' = [requests EXCEPT ![slot] =
                    [req EXCEPT !.pc = "replied", !.reply = Sent(req)]]
             /\ UNCHANGED << cache, compiled, heap >>
        ELSE \E detail \in BOOLEAN :
               ResponseValidated(slot, picked.schema,
                   validate(cache, compiled, heap, << req.route, "response" >>,
                            picked.schema, req.at["response"],
                            << slot, "response", "copy" >>, detail))

\* The reply is validated and sent, or replaced by responseFailAction's.
ValidateResponse(slot) ==
    /\ requests[slot].pc = "response"
    /\ ResponsePicked(slot,
           ResponseSchema(server.routes[requests[slot].route].config.response,
                          requests[slot].response.statusCode))
    /\ UNCHANGED << options, reg, server, nextCalls, probe >>

--------------------------------------------------------------------------
(* The server: register, then requests *)

Init ==
    /\ options \in {[schema |-> Petstore, handlers |-> ByIdAndKey, handlerTransform |-> tr] :
                        tr \in {NoTransform, NumberTransform}}
                    \cup {[schema |-> Broken, handlers |-> ByIdAndKey,
                           handlerTransform |-> NoTransform]}
    /\ reg = [pc |-> "start", routes |-> << >>, operations |-> << >>]
    /\ server = [routes |-> << >>]
    /\ nextCalls = << >>
    /\ cache = NoFields
    /\ compiled = NoFields
    /\ heap = NoFields
    /\ requests = [slot \in Slots |-> Idle]
    /\ probe = NoProbe

Next ==
    \/ RegisterLoad
    \/ RegisterLoadFails
    \/ RegisterRoute
    \/ RegisterCatch
    \/ \E slot \in Slots : Inject(slot)
    \/ \E slot \in Slots : ValidateInput(slot)
    \/ \E slot \in Slots : Handle(slot)
    \/ \E slot \in Slots : ValidateResponse(slot)

Spec == Init /\ [][Next]_vars

\* The same server with a handler table that implements findPets alone:
\* the entry of addPet is falsy, the other operations have none.
InitPartial ==
    /\ options \in {[schema |-> Petstore, handlers |-> WithFalsy, handlerTransform |-> tr] :
                        tr \in {NoTransform, NumberTransform}}
                    \cup {[schema |-> Broken, handlers |-> WithFalsy,
                           handlerTransform |-> NoTransform]}
    /\ reg = [pc |-> "start", routes |-> << >>, operations |-> << >>]
    /\ server = [routes |-> << >>]
    /\ nextCalls = << >>
    /\ cache = NoFields
    /\ compiled = NoFields
    /\ heap = NoFields
    /\ requests = [slot \in Slots |-> Idle]
    /\ probe = NoProbe

SpecPartial == InitPartial /\ [][Next]_vars

--------------------------------------------------------------------------
(* register alone, over contracts, handler tables and transforms *)

Transforms == {NoTransform, StringTransform(""), StringTransform("wrap"),
               FunctionTransform("wrap"), NumberTransform}

InitRegister ==
    /\ options \in {[schema |-> c, handlers |-> h, handlerTransform |-> tr] :
                        c \in {Petstore, Anonymous, TwoBodies, Broken, Extras},
                        h \in {ByIdAndKey, ByKey, WithFalsy, NoHandlers},
                        tr \in Transforms}
    /\ reg = [pc |-> "start", routes |-> << >>, operations |-> << >>]
    /\ server = [routes |-> << >>]
    /\ nextCalls = << >>
    /\ cache = NoFields
    /\ compiled = NoFields
    /\ heap = NoFields
    /\ requests = [slot \in Slots |-> Idle]
    /\ probe = NoProbe

NextRegister ==
    \/ RegisterLoad
    \/ RegisterLoadFails
    \/ RegisterRoute
    \/ RegisterNextThrows
    \/ RegisterCatch

SpecRegister == InitRegister /\ [][NextRegister]_vars

\* C1: once register has materialized the routes, every route is bound to
\* the handler the three-step order names: the one under its id when the id
\* is a key of the table, else the one under "<method> <uri>" when that key
\* is present, else the not-implemented stand-in.
C1_ThreeStepResolution ==
    reg.pc = "done" =>
        \A i \in 1..Len(server.routes) :
            server.routes[i].handler =
                resolveHandlerFallThrough(transformedHandlers, reg.routes[i])

--------------------------------------------------------------------------
(* The deriver and the validators it feeds, one operation at a time *)

\* The parameter lists and the response maps operations are drawn from.
ParameterLists ==
    {<< >>, << P_limit >>, << P_price >>, << P_id >>, << P_limit, P_tag >>,
     << P_id, P_price, P_token >>, << P_token >>, << P_body >>,
     << P_file, P_limit >>, << P_bodyUntyped >>, << P_bodyDefaults >>}

ResponseMaps ==
    {Field("200", [description |-> "pet", schema |-> Pet]),
     Responses("200", [description |-> "pet", schema |-> Pet],
               "default", [description |-> "error", schema |-> ErrorModel]),
     Field("default", [description |-> "error", schema |-> ErrorModel]),
     Field("204", [description |-> "deleted"])}

\* An operation may leave out its parameters and its responses.
Operations ==
    {[parameters |-> ps, responses |-> rs] : ps \in ParameterLists, rs \in ResponseMaps}
        \cup {[parameters |-> ps] : ps \in ParameterLists}
        \cup {[responses |-> rs] : rs \in ResponseMaps}

Locations == {"path", "query", "header"}

\* The request source hapi validates with the schema of a location.
SourceOf(location) ==
    CASE location = "path" -> "params"
      [] location = "query" -> "query"
      [] location = "header" -> "headers"
      [] location = "body" -> "payload"

ParametersOf(operation) ==
    IF Has(operation, "parameters") THEN operation.parameters ELSE << >>

\* The parameters an operation declares for a location.
Declared(operation, location) ==
    SelectSeq(ParametersOf(operation), LAMBDA param : param.in = location)

DeclaredNames(operation, location) ==
    {Declared(operation, location)[i].name :
        i \in 1..Len(Declared(operation, location))}

\* A value of a location that satisfies what the operation declares for it:
\* every required parameter, as the string a request carries.
Satisfying(operation, location) ==
    LET ps  == Declared(operation, location)
        req == {i \in 1..Len(ps) : Has(ps[i], "required") /\ ps[i].required = TRUE}
    IN  [k \in {ps[i].name : i \in req} |->
            LET param == CHOOSE q \in {ps[i] : i \in req} : q.name = k
            IN  IF param.type = "string" THEN Str(<< "a" >>) ELSE Str(<< "1" >>)]

\* The name of a field no enumerated operation declares.
Undeclared == "x"

InitDerive ==
    /\ options = [schema |-> Petstore, handlers |-> NoHandlers,
                  handlerTransform |-> NoTransform]
    /\ reg = [pc |-> "start", routes |-> << >>, operations |-> << >>]
    /\ server = [routes |-> << >>]
    /\ nextCalls = << >>
    /\ cache = NoFields
    /\ compiled = NoFields
    /\ heap = NoFields
    /\ requests = [slot \in Slots |-> Idle]
    /\ probe \in {[stage |-> "drawn", method |-> m, operation |-> op] :
                     m \in {"get", "post"}, op \in Operations}

\* validate: operationToValidateParams(method, operation)
Derive ==
    /\ probe.stage = "drawn"
    /\ probe' = [stage |-> "derived", method |-> probe.method,
                 operation |-> probe.operation,
                 validate |-> operationToValidateParams(probe.method, probe.operation)]
    /\ UNCHANGED << options, reg, server, nextCalls, cache, compiled, heap, requests >>

\* What the validator of a location called back with for `value`.
Probed(location, name, value, v) ==
    [stage |-> "validated", method |-> probe.method, operation |-> probe.operation,
     validate |-> probe.validate, location |-> location, name |-> name,
     value |-> value, result |-> v.result, callback |-> v.callback,
     output |-> IF v.callback.error = "null" THEN v.heap[v.callback.output] ELSE Null,
     reply |-> IF v.callback.error = "null" THEN NoReply
               ELSE requestFailAction(SourceOf(location), v.callback).reply]

\* The validator makeHapiValidate makes for a location is given a value:
\* one that satisfies the declarations, with one field set to a string.
Probe ==
    /\ probe.stage = "derived"
    /\ \E location \in Locations :
         \E name \in DeclaredNames(probe.operation, location) \cup {Undeclared} :
           \E s \in (IF name = Undeclared THEN {<< "1" >>} ELSE Strings) :
             \E detail \in BOOLEAN :
               probe' = Probed(location, name, s,
                   validate(NoFields, NoFields,
                            Field("in", Obj(SetField(
                                Satisfying(probe.operation, location), name, Str(s)))),
                            << location >>, probe.validate[SourceOf(location)],
                            "in", "copy", detail))
    /\ UNCHANGED << options, reg, server, nextCalls, cache, compiled, heap, requests >>

\* The payloads a request may come with: none (hapi hands the validator
\* null), and objects.
Payloads ==
    {Null, Obj(NoFields), Obj([name |-> Str(<< "a" >>)]), Obj([name |-> Num(Scale)]),
     Obj([name |-> Str(<< "a" >>), tag |-> Str(<< "1" >>)])}

\* What the payload validator called back with for `datum`.
ProbedPayload(datum, v) ==
    [stage |-> "validated", method |-> probe.method, operation |-> probe.operation,
     validate |-> probe.validate, location |-> "body", name |-> "",
     value |-> << >>, datum |-> datum, result |-> v.result, callback |-> v.callback,
     output |-> IF v.callback.error = "null" THEN v.heap[v.callback.output] ELSE Null,
     reply |-> IF v.callback.error = "null" THEN NoReply
               ELSE requestFailAction("payload", v.callback).reply]

\* The payload validator makeHapiValidate makes, where the method has a
\* payload, is given a payload.
ProbePayload ==
    /\ probe.stage = "derived"
    /\ Has(makeHapiValidate(probe.validate,
                            probe.method # "get" /\ probe.method # "head"), "payload")
    /\ \E datum \in Payloads :
         \E detail \in BOOLEAN :
           probe' = ProbedPayload(datum,
               validate(NoFields, NoFields, Field("in", datum), << "body" >>,
                        probe.validate.payload, "in", "copy", detail))
    /\ UNCHANGED << options, reg, server, nextCalls, cache, compiled, heap, requests >>

NextDerive ==
    \/ Derive
    \/ Probe
    \/ ProbePayload

SpecDerive == InitDerive /\ [][NextDerive]_vars

--------------------------------------------------------------------------
(* The validate calls on record *)

\* The validate calls made so far: the request and the source of each.
Made == {c \in Slots \X {"headers", "params", "query", "payload", "response"} :
            c[2] \in DOMAIN requests[c[1]].calls}

CallOf(c) == requests[c[1]].calls[c[2]]

\* The schema object a call was given: the one of its route and source.
SchemaRefOf(c) == << requests[c[1]].route, c[2] >>

\* C2: the cache holds at most one compiled function per schema value, each
\* the only compilation of its schema: ajv.compile has run at most once on
\* any schema, however many schema objects of that value validate was
\* called with.
C2_OneCompilationPerSchema ==
    /\ \A schema \in DOMAIN compiled : compiled[schema] <= 1
    /\ \A k1, k2 \in DOMAIN cache :
          cache[k1].schema = cache[k2].schema => k1 = k2
    /\ \A k \in DOMAIN cache : cache[k].serial = 1 /\ cache[k].schema \in DOMAIN compiled
    /\ \A c \in Made : \E k \in DOMAIN cache : cache[k].schema = CallOf(c).schema

\* Two calls gave validate different schema objects of one value, and the
\* value was compiled once.
C2_Witness ==
    \E c1, c2 \in Made :
        /\ SchemaRefOf(c1) # SchemaRefOf(c2)
        /\ CallOf(c1).schema = CallOf(c2).schema
        /\ compiled[CallOf(c1).schema] = 1

\* C3: whatever the interleaving of the requests in flight, every validate
\* call for a schema ran the same compiled function, the one the first and
\* only compilation of that schema made.
C3_SameInstance ==
    \A c \in Made :
        CallOf(c).fn = [schema |-> CallOf(c).schema, serial |-> 1]

\* Two requests are in flight, each between two of its steps, and each has
\* validated against the same schema.
C3_Witness ==
    \E c1, c2 \in Made :
        /\ c1[1] # c2[1]
        /\ requests[c1[1]].pc \notin {"idle", "replied"}
        /\ requests[c2[1]].pc \notin {"idle", "replied"}
        /\ CallOf(c1).schema = CallOf(c2).schema

\* C4: the object validate was given is as it was before the call, whether
\* the call succeeded or failed, and the output of a successful call is
\* another object, which holds what the compiled function made of the copy.
C4_InputUntouched ==
    \A c \in Made :
        /\ heap[CallOf(c).in] = CallOf(c).before
        /\ CallOf(c).callback.error = "null" =>
              /\ CallOf(c).callback.output # CallOf(c).in
              /\ CallOf(c).callback.output \in DOMAIN heap

\* A successful call whose output differs from its input (coercion or a
\* default changed the copy), and a failed call.
C4_Witness ==
    /\ \E c \in Made :
          /\ CallOf(c).callback.error = "null"
          /\ heap[CallOf(c).callback.output] # CallOf(c).before
    /\ \E c \in Made : CallOf(c).callback.error # "null"

--------------------------------------------------------------------------
(* The derived schemas *)

\* The declaration of the parameter a probe set.
ProbedParameter ==
    CHOOSE param \in {Declared(probe.operation, probe.location)[i] :
                         i \in 1..Len(Declared(probe.operation, probe.location))} :
        param.name = probe.name

\* digits, or digits "." digits for a number: "42", "3.14".
NumericLooking(type, s) ==
    \/ s # << >> /\ AllDigits(s)
    \/ /\ type = "number"
       /\ IndexOfDot(s) > 1 /\ IndexOfDot(s) < Len(s)
       /\ AllDigits(SubSeq(s, 1, IndexOfDot(s) - 1))
       /\ AllDigits(SubSeq(s, IndexOfDot(s) + 1, Len(s)))

\* A string with a letter in it: "abc".
NonNumeric(s) == \E i \in 1..Len(s) : s[i] = "a"

C8_AdditionalProperties ==
    /\ probe.stage \in {"derived", "validated"} =>
          \A location \in Locations :
              Declared(probe.operation, location) # << >> =>
                  probe.validate[SourceOf(location)].additionalProperties
                      = (location = "header")
    /\ (/\ probe.stage = "validated"
        /\ probe.name = Undeclared
        /\ Declared(probe.operation, probe.location) # << >>)
       => IF probe.location = "header"
          THEN probe.callback.error = "null"
          ELSE probe.callback.error # "null" /\ probe.reply.statusCode = 400

\* A query with an undeclared field was rejected by an operation that
\* declares a query parameter.
C8_Witness ==
    /\ probe.stage = "validated"
    /\ probe.name = Undeclared
    /\ probe.location = "query"
    /\ Declared(probe.operation, "query") # << >>
    /\ probe.callback.error = "ValidationError"

\* C9: the derived responses have a `default` entry: the pair derived from
\* the declared `default` response where the operation declares one, the
\* pair of two empty schemas where it declares none or no responses at all.
C9_DefaultResponse ==
    probe.stage \in {"derived", "validated"} =>
        /\ Has(probe.validate.responses, "default")
        /\ probe.validate.responses.default =
              IF Has(probe.operation, "responses")
                 /\ Has(probe.operation.responses, "default")
              THEN swaggerResponseToAPIResponse(probe.operation.responses.default)
              ELSE [payload |-> << >>, headers |-> << >>]

\* An operation that declares a `default` response has been derived.
C9_Witness ==
    /\ probe.stage = "derived"
    /\ Has(probe.operation, "responses")
    /\ Has(probe.operation.responses, "default")
    /\ probe.validate.responses.default.payload = ErrorModel

--------------------------------------------------------------------------
(* The routes and the requests through them *)

\* The operation route i was derived from.
OperationOf(i) == reg.operations[i]

\* The locations the operation of route i declares no parameter for.
Empty(i) ==
    {location \in Locations :
        \A j \in 1..Len(ParametersOf(OperationOf(i))) :
            ParametersOf(OperationOf(i))[j].in # location}

\* C7 as stated: where an operation declares no parameter for a location,
\* the route has no validator for that location and validate is never
\* called for it.
C7_NoValidatorWhereNothingDeclared ==
    /\ reg.pc = "done" =>
          \A i \in 1..Len(server.routes) : \A location \in Empty(i) :
              ~Has(server.routes[i].config.validate, SourceOf(location))
    /\ \A c \in Made : \A location \in Empty(requests[c[1]].route) :
          c[2] # SourceOf(location)

\* C7: where an operation declares no parameter for a location, the schema
\* derived for it is the empty schema {}, the route calls validate with it,
\* and every value is accepted and passed on as it was: with no query
\* parameter declared, every query is accepted.
C7_EmptySchemaAcceptsAll ==
    /\ reg.pc = "done" =>
          \A i \in 1..Len(server.routes) : \A location \in Empty(i) :
              /\ reg.routes[i].validate[SourceOf(location)] = EmptySchema
              /\ Has(server.routes[i].config.validate, SourceOf(location))
              /\ server.routes[i].config.validate[SourceOf(location)] = EmptySchema
    /\ \A c \in Made : \A location \in Locations :
          c[2] = SourceOf(location) /\ location \in Empty(requests[c[1]].route) =>
              /\ CallOf(c).schema = EmptySchema
              /\ CallOf(c).callback.error = "null"
              /\ heap[CallOf(c).callback.output] = CallOf(c).before

\* A query with a field went through the validator of a route whose
\* operation declares no query parameter.
C7_Witness ==
    \E c \in Made :
        /\ c[2] = "query"
        /\ "query" \in Empty(requests[c[1]].route)
        /\ CallOf(c).before # Obj(NoFields)
        /\ CallOf(c).callback.error = "null"

\* The requests whose handler replied and whose reply has been dealt with.
Responded ==
    {slot \in Slots : requests[slot].pc = "replied"
                      /\ requests[slot].response.statusCode # 0}

\* The responses derived for the route of a request.
ResponsesOf(slot) == reg.routes[requests[slot].route].validate.responses

DeclaredStatus(slot) ==
    Has(ResponsesOf(slot), StatusKey(requests[slot].response.statusCode))

\* The payload schema of the entry of the status, else of `default`.
ExpectedSchema(slot) ==
    IF DeclaredStatus(slot)
    THEN ResponsesOf(slot)[StatusKey(requests[slot].response.statusCode)].payload
    ELSE ResponsesOf(slot).default.payload

\* The contract declares no `default` response for the route of a request.
NoDeclaredDefault(slot) ==
    ~(/\ Has(OperationOf(requests[slot].route), "responses")
      /\ Has(OperationOf(requests[slot].route).responses, "default"))

ValidatedAgainstExpected(slot) ==
    /\ "response" \in DOMAIN requests[slot].calls
    /\ requests[slot].calls["response"].schema = ExpectedSchema(slot)

SentAsReplied(slot) ==
    /\ requests[slot].reply.by = "handler"
    /\ requests[slot].reply.statusCode = requests[slot].response.statusCode

\* C10 as stated: whatever the status, the handler's output is validated
\* against the payload schema of the status's entry or, for an undeclared
\* status, of `default`; without a declared `default` every output of an
\* undeclared status passes.
C10_EveryStatusValidated ==
    \A slot \in Responded :
        /\ ValidatedAgainstExpected(slot)
        /\ ~DeclaredStatus(slot) /\ NoDeclaredDefault(slot) => SentAsReplied(slot)

\* C10: a declared status is validated against the payload schema of its
\* entry; an undeclared status below 400 against the one of `default`; an
\* undeclared status of 400 or above is not validated and is sent as the
\* handler made it; without a declared `default` every output of an
\* undeclared status passes.
C10_StatusValidatedBelow400 ==
    \A slot \in Responded :
        /\ DeclaredStatus(slot) \/ requests[slot].response.statusCode < 400 =>
              ValidatedAgainstExpected(slot)
        /\ ~DeclaredStatus(slot) /\ requests[slot].response.statusCode >= 400 =>
              "response" \notin DOMAIN requests[slot].calls /\ SentAsReplied(slot)
        /\ ~DeclaredStatus(slot) /\ NoDeclaredDefault(slot) => SentAsReplied(slot)

\* One reply of an undeclared status below 400 was validated against the
\* declared `default`, and one of an undeclared 404 was sent unvalidated.
C10_Witness ==
    /\ \E slot \in Responded :
          /\ requests[slot].response.statusCode = 201
          /\ ~NoDeclaredDefault(slot)
          /\ requests[slot].calls["response"].schema = ErrorModel
    /\ \E slot \in Responded :
          /\ requests[slot].response.statusCode = 404
          /\ ~NoDeclaredDefault(slot)
          /\ requests[slot].reply.statusCode = 404

--------------------------------------------------------------------------
(* The failure handlers *)

\* The validate calls for a request source that called back with an error.
FailedInputs == {c \in Made : c[2] # "response" /\ CallOf(c).callback.error # "null"}

\* The requests whose response validation called back with an error.
FailedResponses ==
    {slot \in Slots : /\ "response" \in DOMAIN requests[slot].calls
                      /\ requests[slot].calls["response"].callback.error # "null"}

\* C11: when the validation of the headers, the path parameters, the query
\* or the payload of a request fails, requestFailAction logs and then
\* replies: the reply is a 4xx made by requestFailAction, its validation
\* entry names the source that failed and, for a ValidationError, carries
\* the error list; the handler of the route has not run.
C11_RequestFailure ==
    \A c \in FailedInputs :
        LET req  == requests[c[1]]
            call == CallOf(c)
        IN  /\ req.pc = "replied"
            /\ req.events = << "log", "reply" >>
            /\ req.reply.by = "requestFailAction"
            /\ req.reply.statusCode \in 400..499
            /\ req.reply.validation.source = c[2]
            /\ call.callback.error = "ValidationError" =>
                  /\ req.reply.validation.detailed
                  /\ req.reply.validation.errors = call.errors.list
                  /\ req.reply.validation.errors # << >>
            /\ call.callback.error # "ValidationError" =>
                  ~req.reply.validation.detailed
            /\ req.response = NoResponse
            /\ "response" \notin DOMAIN req.calls

\* One request failed the validation of its query with a ValidationError
\* and another the validation of its payload.
C11_Witness ==
    /\ \E c \in FailedInputs :
          c[2] = "query" /\ CallOf(c).callback.error = "ValidationError"
    /\ \E c \in FailedInputs : c[2] = "payload"

\* C12: when the validation of a handler's output against the schema
\* selected for its status fails, with a ValidationError or an
\* UnknownError, the reply is the 5xx responseFailAction makes, not the
\* handler's.
C12_ResponseFailure ==
    \A slot \in FailedResponses :
        /\ requests[slot].pc = "replied"
        /\ requests[slot].reply.by = "responseFailAction"
        /\ requests[slot].reply.statusCode \in 500..599
        /\ requests[slot].reply # Sent(requests[slot])

\* A response failed with a ValidationError and another with an
\* UnknownError.
C12_Witness ==
    /\ \E slot \in FailedResponses :
          requests[slot].calls["response"].callback.error = "ValidationError"
    /\ \E slot \in FailedResponses :
          requests[slot].calls["response"].callback.error = "UnknownError"

--------------------------------------------------------------------------
(* The handler transform *)

\* The handlerTransform option is present and neither a string nor a function.
UnsupportedTransform ==
    options.handlerTransform.kind \notin {"undefined", "string", "function"}

\* register has run to its end, one way or the other.
Returned == reg.pc \in {"done", "failed"}

\* register failed: no route is registered and next got the error.
SetupFailed ==
    /\ reg.pc = "failed"
    /\ server.routes = << >>
    /\ Len(nextCalls) = 1
    /\ nextCalls[1] # "undefined"

\* C13: with a handlerTransform that is neither a string nor a function,
\* register fails at setup, whatever the handler table is, the empty one
\* included.
C13_UnsupportedTransformFails ==
    UnsupportedTransform /\ Returned => SetupFailed

\* A handler as the claim has the transform leave it: {[name]: h} for a
\* string, f(h) for a function, h itself without a transform.
Wrapped(transform, h) ==
    CASE transform.kind = "string" ->
             [h EXCEPT !.wrap = Append(@, [by |-> "key", name |-> transform.name])]
      [] transform.kind = "function" ->
             [h EXCEPT !.wrap = Append(@, [by |-> "call", name |-> transform.name])]
      [] OTHER -> h

\* The entry of the handler table the code reads for a route, the stand-in
\* where it is missing or falsy.
Resolved(i) == resolveHandler(options.handlers, reg.routes[i])

\* C14 as stated: the handler of every route is the transform applied to
\* the handler resolved for it, the stand-in included.
C14_TransformEveryResolved ==
    reg.pc = "done" =>
        \A i \in 1..Len(server.routes) :
            server.routes[i].handler = Wrapped(options.handlerTransform, Resolved(i))

\* C14: the handler of a route whose entry is in the handler table is the
\* transform applied to that entry: {[name]: h} for a non-empty string,
\* f(h) for a function, h itself without a transform or with the empty
\* string; a route without an entry has the stand-in itself, whatever the
\* transform.
C14_TransformTableEntries ==
    reg.pc = "done" =>
        \A i \in 1..Len(server.routes) :
            server.routes[i].handler =
                IF Resolved(i) = notImplementedHandler THEN notImplementedHandler
                ELSE IF Falsy(options.handlerTransform) THEN Resolved(i)
                ELSE Wrapped(options.handlerTransform, Resolved(i))

\* Under a string transform one route has its handler wrapped and another
\* the bare stand-in.
C14_Witness ==
    /\ reg.pc = "done"
    /\ options.handlerTransform = StringTransform("wrap")
    /\ \E i \in 1..Len(server.routes) :
          /\ Resolved(i) # notImplementedHandler
          /\ server.routes[i].handler.wrap = << [by |-> "key", name |-> "wrap"] >>
    /\ \E i \in 1..Len(server.routes) :
          server.routes[i].handler = notImplementedHandler

--------------------------------------------------------------------------
(* The payload *)

\* A payload validator was given a payload for an operation that declares
\* a body parameter.
BodyProbed ==
    /\ probe.stage = "validated"
    /\ probe.location = "body"
    /\ Declared(probe.operation, "body") # << >>

\* The schema of the body parameter the operation declares.
BodySchema == Head(Declared(probe.operation, "body")).schema

\* The payload is an object that satisfies the body schema as it stands.
MatchingBody ==
    /\ probe.datum # Null
    /\ Validate(ajvPlain, BodySchema, probe.datum, "").valid

\* C16: for an operation that declares a body parameter and whose method is
\* neither get nor head, a request without a payload fails the payload
\* validation and is answered with a 4xx, and a payload that matches the
\* body schema passes.
C16_MissingPayloadFails ==
    BodyProbed =>
        /\ probe.datum = Null =>
              /\ probe.callback.error # "null"
              /\ probe.reply.statusCode \in 400..499
        /\ MatchingBody => probe.callback.error = "null"

\* C19: coercion and defaults are a matter of the call site: the validation
\* of a body payload hands back the payload it was given, so that a
\* matching body reaches the handler exactly as it was sent.
C19_BodyForwardedVerbatim ==
    BodyProbed /\ probe.callback.error = "null" => probe.output = probe.datum

--------------------------------------------------------------------------
(* Derivation and setup failures *)

\* An operation of the contract declares more than one body parameter.
ConflictingBody ==
    \E i \in 1..Len(pathMethodOperations(options.schema)) :
        /\ pathMethodOperations(options.schema)[i] # Null
        /\ Len(SelectSeq(ParametersOf(pathMethodOperations(options.schema)[i]),
                         LAMBDA param : param.in = "body")) > 1

\* C17: where an operation declares more than one body parameter,
\* loadRoutes fails: register gets no routes from it and reports the error.
C17_ConflictFailsDerivation ==
    ConflictingBody /\ reg.pc # "start" => reg.pc = "failed" /\ reg.routes = << >>

\* C18: the routes of one loadRoutes call have pairwise distinct ids: the
\* operationId where there is one, a generated token that no other route of
\* the call has where there is none.
C18_DistinctIds ==
    /\ \A i, j \in 1..Len(reg.routes) :
          i # j => reg.routes[i].id # reg.routes[j].id
    /\ \A i \in 1..Len(reg.routes) :
          Has(OperationOf(i), "operationId") =>
              reg.routes[i].id = OperationOf(i).operationId

\* loadRoutes or transformHandler throws for the options register has.
SetupThrows == loadRoutesThrows(options.schema) \/ TransformThrows

\* C20: when loadRoutes or transformHandler throws, register stops there:
\* server.route is not called, at no time is a route of the contract
\* registered, next is called with the error, once, and nothing runs again.
C20_FailureAbortsSetup ==
    SetupThrows =>
        /\ server.routes = << >>
        /\ Len(nextCalls) <= 1
        /\ Returned => SetupFailed

\* transformHandler threw after loadRoutes had returned the routes, and
\* next was called with its error.
C20_Witness ==
    /\ reg.pc = "failed"
    /\ reg.routes # << >>
    /\ TransformThrows
    /\ server.routes = << >>
    /\ nextCalls = << "Invalid transform typeof" >>

--------------------------------------------------------------------------
(* The stand-in *)

\* The handler table has no entry for route i, neither under its id nor
\* under "<method> <uri>".
NoEntry(i) ==
    /\ Lookup(options.handlers, reg.routes[i].id) = NoHandler
    /\ Lookup(options.handlers,
              reg.routes[i].method \o " " \o reg.routes[i].uri) = NoHandler

\* The requests to a route without an entry whose handler has replied.
StoodIn ==
    {slot \in Slots : /\ requests[slot].response.statusCode # 0
                      /\ NoEntry(requests[slot].route)}

\* C15: a route without a handler entry does not fail the setup: it is
\* registered with the stand-in as its handler, and whatever the request
\* the stand-in replies a 501, which is what the client is sent where the
\* contract declares no response of status 501 to validate it against.
C15_NotImplemented ==
    /\ reg.pc = "failed" => SetupThrows
    /\ reg.pc = "done" =>
          /\ nextCalls = << "undefined" >>
          /\ \A i \in 1..Len(reg.routes) :
                NoEntry(i) => /\ i \in 1..Len(server.routes)
                              /\ server.routes[i].handler = notImplementedHandler
    /\ \A slot \in StoodIn :
          /\ requests[slot].response = [statusCode |-> 501, isBoom |-> TRUE]
          /\ heap[requests[slot].at["response"]] = NotImplemented501.source
          /\ requests[slot].pc = "replied" /\ ~DeclaredStatus(slot) =>
                requests[slot].reply = [statusCode |-> 501, by |-> "handler",
                                        validation |-> NoValidation]

\* Requests to post /api/pets, whose entry is falsy, and to
\* delete /api/pets/{id}, which has none, have been answered.
C15_Witness ==
    /\ \A slot \in Slots : slot \in StoodIn /\ requests[slot].pc = "replied"
    /\ \E slot \in Slots : server.routes[requests[slot].route].method = "delete"
    /\ \E slot \in Slots : server.routes[requests[slot].route].method = "post"

--------------------------------------------------------------------------
(* The routes of a contract *)

HttpMethods == {"get", "post", "put", "delete", "options", "head", "patch"}

\* The (path, method) pairs of the contract whose method is a key of the
\* path's entry and a supported method.
DeclaredPairs ==
    {pm \in (1..Len(options.schema.paths)) \X HttpMethods :
        pm[2] \in DOMAIN options.schema.paths[pm[1]].pathConfig}

\* The routes loadRoutes returned for the pair.
RoutesOfPair(pm) ==
    {i \in 1..Len(reg.routes) :
        /\ reg.routes[i].method = pm[2]
        /\ reg.routes[i].uri = options.schema.basePath
                                   \o options.schema.paths[pm[1]].pathUri}

\* The contract without the keys of its path entries that are no
\* supported method.
SupportedOnly ==
    [options.schema EXCEPT !.paths =
        [p \in 1..Len(options.schema.paths) |->
            [options.schema.paths[p] EXCEPT !.pathConfig =
                [k \in DOMAIN @ \cap HttpMethods |-> @[k]]]]]

\* The random tokens of the routes, read back from the ids they are in.
TokensUsed ==
    [i \in 1..Len(reg.routes) |->
        IF Has(OperationOf(i), "operationId") /\ OperationOf(i).operationId # ""
        THEN "k3x"
        ELSE SubSeq(reg.routes[i].id, Len("operation_") + 1, Len(reg.routes[i].id))]

\* C21: the routes loadRoutes returned are one per (path, method) pair
\* whose method is a key of the path's entry and a supported method, and
\* no other; they are the routes of the contract without its other keys.
C21_OneRoutePerPair ==
    reg.routes # << >> =>
        /\ \A pm \in DeclaredPairs : Cardinality(RoutesOfPair(pm)) = 1
        /\ \A i \in 1..Len(reg.routes) : \E pm \in DeclaredPairs : i \in RoutesOfPair(pm)
        /\ Len(reg.routes) = Cardinality(DeclaredPairs)
        /\ reg.routes = loadRoutes(SupportedOnly, TokensUsed)

\* The three routes of the path entry that also has the keys trace and
\* parameters.
C21_Witness ==
    /\ reg.pc = "loaded"
    /\ options.schema = Extras
    /\ Len(reg.routes) = 3
    /\ {reg.routes[i].method : i \in 1..Len(reg.routes)} = {"get", "head", "put"}
    /\ \A i \in 1..Len(reg.routes) : reg.routes[i].uri = "/api/files"

--------------------------------------------------------------------------
(* The calls of next *)

\* register has run to its end.
Ended == reg.pc \in {"done", "failed", "recalled"}

\* C22: next is never called twice, and a run of register that has ended
\* has called it once: without an error after server.route was given the
\* routes, with the error when the setup failed.
C22_NextExactlyOnce ==
    /\ Len(nextCalls) <= 1
    /\ Ended =>
          /\ Len(nextCalls) = 1
          /\ nextCalls[1] = "undefined" <=> ~SetupThrows
          /\ nextCalls[1] = "undefined" => Len(server.routes) = Len(reg.routes)

--------------------------------------------------------------------------
(* The payload of a route *)

\* Route i declares a body or a formData parameter.
DeclaresPayload(i) ==
    /\ Has(OperationOf(i), "parameters")
    /\ \E j \in 1..Len(OperationOf(i).parameters) :
          OperationOf(i).parameters[j].in \in {"body", "formData"}

\* C23: a route given to server.route has a payload validator and a
\* payload-parsing policy exactly when its method is neither get nor head,
\* whatever parameters its operation declares; the policy allows the
\* route's consumes list, parses, admits 32 MiB and outputs 'data', and the
\* validator is the one of the payload schema derived for the route.
C23_PayloadExceptGetHead ==
    \A i \in 1..Len(server.routes) :
        LET method == server.routes[i].method
            config == server.routes[i].config
        IN  IF method \in {"get", "head"}
            THEN /\ ~Has(config, "payload")
                 /\ ~Has(config.validate, "payload")
            ELSE /\ Has(config, "payload")
                 /\ config.payload = [allow    |-> reg.routes[i].consumes,
                                      parse    |-> TRUE,
                                      maxBytes |-> 32 * 1024 * 1024,
                                      output   |-> "data"]
                 /\ Has(config.validate, "payload")
                 /\ config.validate.payload = reg.routes[i].validate.payload

\* Routes are registered of which a get and a head declare a formData and
\* a body parameter and have no payload validator, and a put declares
\* neither and has one, with its own consumes list as what is allowed.
C23_Witness ==
    /\ reg.pc = "done"
    /\ \E i \in 1..Len(server.routes) :
          /\ server.routes[i].method = "head"
          /\ DeclaresPayload(i)
          /\ ~Has(server.routes[i].config.validate, "payload")
    /\ \E i \in 1..Len(server.routes) :
          /\ server.routes[i].method = "get"
          /\ DeclaresPayload(i)
          /\ ~Has(server.routes[i].config, "payload")
    /\ \E i \in 1..Len(server.routes) :
          /\ server.routes[i].method = "put"
          /\ ~DeclaresPayload(i)
          /\ server.routes[i].config.validate.payload = EmptySchema
          /\ server.routes[i].config.payload.allow = << "text/plain" >>

==========================================================================
